---------------------------- MODULE Spec2Model ----------------------------
(***************************************************************************)
(* SnowRail MCP server (src/src/snowrail-mcp.ts): the mode gate, the tool  *)
(* registry, the base-URL resolver and the HTTP bridge snowrailFetch,      *)
(* modelled as a state machine over tool invocations.                      *)
(***************************************************************************)
EXTENDS Integers, Sequences, FiniteSets, TLC

VARIABLES
    env,          \* process.env as read at module load (immutable afterwards)
    registered,   \* names registered on the McpServer by the module body
    inv           \* per host slot: the tool invocation occupying it

vars == <<env, registered, inv>>

(***************************************************************************)
(* Bounds                                                                  *)
(***************************************************************************)
\* longest response body / messagePayload text, in characters
MaxTextLen == 3
\* number of invocations the host may have in flight at once
MaxInFlight == 2
\* amounts from 0.01 to MaxCents / 100 are paid, cent by cent
MaxCents == 2000
\* and the amounts from 2^45 to 2^45 + MaxLargeOffset / 100
MaxLargeOffset == 4

(***************************************************************************)
(* JavaScript values.  Every value is a tagged record, so that values of   *)
(* different JavaScript types can be compared.                             *)
(***************************************************************************)
Undefined == [t |-> "undefined"]
Null == [t |-> "null"]
Str(s) == [t |-> "string", s |-> s]
Num(n) == [t |-> "number", n |-> n]
\* a string whose characters matter (JSON text): a sequence of characters
Text(cs) == [t |-> "string", cs |-> cs]
Arr(elems) == [t |-> "array", elems |-> elems]
\* a member inherited from Object.prototype, e.g. ({})["constructor"]
Inherited(key) == [t |-> "inherited", key |-> key]

\* a ?? b
Coalesce(a, b) == IF a.t \in {"undefined", "null"} THEN b ELSE a

\* the truthiness test of if (v), !v and v && w
Truthy(v) ==
    CASE v.t \in {"undefined", "null"} -> FALSE
      [] v.t = "string" -> v # Str("") /\ v # Text(<<>>)
      [] v.t = "number" -> v.n # 0
      [] OTHER -> TRUE

\* `${v}` of a template literal
TemplateString(v) ==
    CASE v.t = "string" -> v.s
      [] v.t = "undefined" -> "undefined"
      [] v.t = "inherited" ->
            CASE v.key = "__proto__" -> "[object Object]"
              [] v.key = "constructor" -> "function Object() { [native code] }"
              [] OTHER -> "function " \o v.key \o "() { [native code] }"
      [] OTHER -> "[object Object]"

(***************************************************************************)
(* JSON.parse on texts over a small alphabet: numbers (digit runs),        *)
(* strings ("..." without escapes) and arrays ([] or [value]).             *)
(***************************************************************************)
Chars == {"1", "a", "\"", "[", "]"}
Digits == {"1"}

RECURSIVE Texts(_)
Texts(n) ==
    IF n = 0 THEN {<<>>}
    ELSE LET shorter == Texts(n - 1)
         IN  shorter \cup {Append(cs, c) : cs \in {x \in shorter : Len(x) = n - 1}, c \in Chars}

ParseFail == [ok |-> FALSE, val |-> Undefined, next |-> 0]

RECURSIVE DigitsEnd(_, _)
\* index just after the digit run starting at i
DigitsEnd(cs, i) ==
    IF i <= Len(cs) /\ cs[i] \in Digits THEN DigitsEnd(cs, i + 1) ELSE i

RECURSIVE DigitsValue(_, _, _)
\* the number a digit run cs[i..j-1] denotes
DigitsValue(cs, i, j) ==
    IF j <= i THEN 0
    ELSE DigitsValue(cs, i, j - 1) * 10 + (CASE cs[j - 1] = "1" -> 1)

RECURSIVE QuoteAt(_, _)
\* index of the first quote at or after i, or 0
QuoteAt(cs, i) ==
    IF i > Len(cs) THEN 0
    ELSE IF cs[i] = "\"" THEN i ELSE QuoteAt(cs, i + 1)

RECURSIVE ParseValue(_, _)
ParseValue(cs, i) ==
    IF i > Len(cs) THEN ParseFail
    ELSE IF cs[i] \in Digits THEN
        LET j == DigitsEnd(cs, i)
        IN  [ok |-> TRUE, val |-> Num(DigitsValue(cs, i, j)), next |-> j]
    ELSE IF cs[i] = "\"" THEN
        LET q == QuoteAt(cs, i + 1)
        IN  IF q = 0 THEN ParseFail
            ELSE [ok |-> TRUE, val |-> Text(SubSeq(cs, i + 1, q - 1)), next |-> q + 1]
    ELSE IF cs[i] = "[" THEN
        IF i + 1 <= Len(cs) /\ cs[i + 1] = "]"
        THEN [ok |-> TRUE, val |-> Arr(<<>>), next |-> i + 2]
        ELSE LET e == ParseValue(cs, i + 1)
             IN  IF e.ok /\ e.next <= Len(cs) /\ cs[e.next] = "]"
                 THEN [ok |-> TRUE, val |-> Arr(<<e.val>>), next |-> e.next + 1]
                 ELSE ParseFail
    ELSE ParseFail

\* JSON.parse(cs): ok = FALSE stands for the SyntaxError it throws
JSONParse(cs) ==
    LET r == ParseValue(cs, 1)
    IN  IF r.ok /\ r.next = Len(cs) + 1 THEN r ELSE ParseFail

IsValidJSON(cs) == JSONParse(cs).ok

(***************************************************************************)
(* Numbers are IEEE 754 doubles.  Non-negative integers of any size are    *)
(* sequences of bits, most significant first (<<>> is zero); a positive    *)
(* double is a pair [m, s] standing for m * 2^(-s).                        *)
(***************************************************************************)
\* bits of a double's significand
Precision == 53

RECURSIVE ToBits(_)
ToBits(n) == IF n = 0 THEN <<>> ELSE Append(ToBits(n \div 2), n % 2)

RECURSIVE FromBits(_)
FromBits(bs) ==
    IF Len(bs) = 0 THEN 0
    ELSE 2 * FromBits(SubSeq(bs, 1, Len(bs) - 1)) + bs[Len(bs)]

Zeros(n) == [i \in 1 .. n |-> 0]

\* bs written with n bits
Pad(bs, n) == Zeros(n - Len(bs)) \o bs

\* bs without its leading zeros
Strip(bs) ==
    IF \A i \in 1 .. Len(bs) : bs[i] = 0 THEN <<>>
    ELSE SubSeq(bs, CHOOSE i \in 1 .. Len(bs) :
                        bs[i] = 1 /\ \A j \in 1 .. (i - 1) : bs[j] = 0,
                Len(bs))

\* a + b: bit i receives a carry when a lower position generates one and
\* every position in between passes it on
Plus(a, b) ==
    LET n == (IF Len(a) > Len(b) THEN Len(a) ELSE Len(b)) + 1
        x == Pad(a, n)
        y == Pad(b, n)
        carry(i) == \E j \in (i + 1) .. n :
                        /\ x[j] + y[j] = 2
                        /\ \A k \in (i + 1) .. (j - 1) : x[k] + y[k] >= 1
    IN  Strip([i \in 1 .. n |->
                  (x[i] + y[i] + IF carry(i) THEN 1 ELSE 0) % 2])

\* bs * 100, as 64 bs + 32 bs + 4 bs
Times100(bs) ==
    Plus(Plus(bs \o Zeros(6), bs \o Zeros(5)), bs \o Zeros(2))

RECURSIVE DivSmall(_, _, _, _, _)
\* long division of bs by d, five bits at a time from group i on: quotient
\* bits and remainder
DivSmall(bs, d, i, q, r) ==
    IF 5 * i > Len(bs) THEN [q |-> Strip(q), r |-> r]
    ELSE LET v == 32 * r + FromBits(SubSeq(bs, 5 * i - 4, 5 * i))
         IN  DivSmall(bs, d, i + 1, q \o Pad(ToBits(v \div d), 5), v % d)

\* bs divided by 100
DivBy100(bs) == DivSmall(Pad(bs, 5 * ((Len(bs) + 4) \div 5)), 100, 1, <<>>, 0)

\* the double nearest to cents / 100 (round to nearest, ties to even): the
\* number a decimal literal with two decimals denotes
DoubleOfCents(cents) ==
    LET wide  == Precision + 7 - Len(cents)
        first == DivBy100(cents \o Zeros(wide))
        s     == IF Len(first.q) > Precision THEN wide - 1 ELSE wide
        d     == IF s = wide THEN first
                 ELSE DivBy100(cents \o Zeros(s))
        up    == 2 * d.r > 100 \/ (2 * d.r = 100 /\ d.q[Len(d.q)] = 1)
    IN  [m |-> IF up THEN Plus(d.q, <<1>>) ELSE d.q, s |-> s]

\* x * 100 in double arithmetic: the exact product rounded to Precision bits
TimesHundred(x) ==
    LET p    == Times100(x.m)
        t    == IF Len(p) > Precision THEN Len(p) - Precision ELSE 0
        kept == SubSeq(p, 1, Len(p) - t)
        up   == /\ t > 0
                /\ p[Len(p) - t + 1] = 1
                /\ \/ \E i \in (Len(p) - t + 2) .. Len(p) : p[i] = 1
                   \/ kept[Len(kept)] = 1
    IN  [m |-> IF up THEN Plus(kept, <<1>>) ELSE kept, s |-> x.s - t]

\* Math.round(x): the nearest integer, halves upwards
MathRound(x) ==
    IF x.s <= 0 THEN x.m \o Zeros(0 - x.s)
    ELSE IF x.s > Len(x.m) THEN <<>>
    ELSE LET whole == SubSeq(x.m, 1, Len(x.m) - x.s)
         IN  IF x.m[Len(x.m) - x.s + 1] = 1 THEN Plus(whole, <<1>>) ELSE whole

\* the number written cents / 100 with two decimals, as the handler receives it
Dec(cents) == [t |-> "number", cents |-> cents]

\* an integer result of any size
BigInt(bits) == [t |-> "number", bits |-> bits]

\* the double a positive number value holds
AsDouble(v) ==
    IF "cents" \in DOMAIN v THEN DoubleOfCents(v.cents)
    ELSE DoubleOfCents(ToBits(v.n * 100))

\* z.number().positive()
Positive(v) == IF "n" \in DOMAIN v THEN v.n > 0 ELSE v.cents # <<>>

(***************************************************************************)
(* Process configuration, read once when the module is loaded              *)
(***************************************************************************)
MCP_MODE == Coalesce(env.SNOWRAIL_MCP_MODE, Str("core"))

\* the advanced tier is forgotten when the mode is internal
isAdvanced_OnlyAdvanced == MCP_MODE = Str("advanced")

isAdvanced == MCP_MODE = Str("advanced") \/ MCP_MODE = Str("internal")

isInternal == MCP_MODE = Str("internal")

BASE_URLS ==
    [development |-> "http://localhost:4000",
     staging     |-> "https://staging-api.snowrail.xyz",
     production  |-> "https://api.snowrail.xyz"]

\* names every object literal inherits from Object.prototype
ObjectPrototypeKeys ==
    {"constructor", "toString", "valueOf", "hasOwnProperty", "__proto__"}

\* BASE_URLS[key]: an own entry, an inherited member, or undefined
BaseUrlsGet(key) ==
    IF key.t = "string" /\ key.s \in DOMAIN BASE_URLS THEN Str(BASE_URLS[key.s])
    ELSE IF key.t = "string" /\ key.s \in ObjectPrototypeKeys THEN Inherited(key.s)
    ELSE Undefined

DEFAULT_ENV == Coalesce(env.SNOWRAIL_ENV, Str("staging"))

DEFAULT_BASE_URL == Coalesce(env.SNOWRAIL_API_BASE, BaseUrlsGet(DEFAULT_ENV))

NoThrow(v) == [threw |-> FALSE, val |-> v]
Throw == [threw |-> TRUE, val |-> Undefined]

\* the environment is looked up first, the override only when that gives nothing
resolveBaseUrl_EnvFirst(environment, baseUrlOverride) ==
    LET e   == Coalesce(environment, DEFAULT_ENV)
        url == Coalesce(BaseUrlsGet(e), baseUrlOverride)
    IN  IF ~Truthy(url) THEN Throw ELSE NoThrow(url)

\* the process default environment shadows the per-call environment
resolveBaseUrl_DefaultEnvFirst(environment, baseUrlOverride) ==
    IF Truthy(baseUrlOverride) THEN NoThrow(baseUrlOverride)
    ELSE LET e   == Coalesce(DEFAULT_ENV, environment)
             url == Coalesce(BaseUrlsGet(e), DEFAULT_BASE_URL)
         IN  IF ~Truthy(url) THEN Throw ELSE NoThrow(url)

resolveBaseUrl(environment, baseUrlOverride) ==
    IF Truthy(baseUrlOverride) THEN NoThrow(baseUrlOverride)
    ELSE LET e   == Coalesce(environment, DEFAULT_ENV)
             url == Coalesce(BaseUrlsGet(e), DEFAULT_BASE_URL)
         IN  IF ~Truthy(url) THEN Throw ELSE NoThrow(url)

(***************************************************************************)
(* Input schemas (zod)                                                     *)
(***************************************************************************)
Req(kind) == [kind |-> kind, opt |-> FALSE, def |-> Undefined]
Opt(kind) == [kind |-> kind, opt |-> TRUE, def |-> Undefined]
Def(kind, d) == [kind |-> kind, opt |-> TRUE, def |-> d]

\* strings on which z.string().email() succeeds, among those the model uses
IsEmail(s) == s \in {"a@b.co"}

\* strings on which z.string().url() succeeds (new URL(s) does not throw)
IsUrl(s) ==
    s \in {"https://override.example", "https://custom.example",
           "https://staging-api.snowrail.xyz/facilitator/settle?",
           "https://staging-api.snowrail.xyz/api/dashboard#"}
          \cup {BASE_URLS[k] : k \in DOMAIN BASE_URLS}

environmentSchema == Opt("env")

\* zod's check of one present value against a field's type and constraint
Conforms(kind, v) ==
    CASE kind = "string"   -> v.t = "string"
      [] kind = "email"    -> v.t = "string" /\ IsEmail(v.s)
      [] kind = "url"      -> v.t = "string" /\ IsUrl(v.s)
      [] kind = "positive" -> v.t = "number" /\ Positive(v)
      [] kind = "len2"     -> v.t = "string" /\ Len(v.s) = 2
      [] kind = "min8"     -> v.t = "string" /\ Len(v.s) >= 8
      [] kind = "env"      ->
            v.t = "string" /\ v.s \in {"development", "staging", "production"}

CommonFields == [environment |-> environmentSchema, baseUrl |-> Opt("url")]

\* the X-PAYMENT parameter declared optional
XPayment_Optional == [xPayment |-> Opt("string")]

XPayment == [xPayment |-> Req("string")]

Schema(tool) ==
    CASE tool \in {"snowrail_health", "snowrail_agent_identity", "snowrail_agent_stats",
                   "snowrail_agent_activity", "snowrail_treasury_balance",
                   "snowrail_facilitator_health"} -> CommonFields
      [] tool \in {"snowrail_payroll_execute", "snowrail_treasury_test"} ->
            CommonFields @@ XPayment
      [] tool = "snowrail_payroll_get_by_id" ->
            CommonFields @@ [payrollId |-> Req("string")]
      [] tool = "snowrail_payment_process" ->
            CommonFields @@ XPayment @@
            [recipientEmail |-> Req("email"), amount |-> Req("positive"),
             currency |-> Def("string", Str("USD")),
             firstName |-> Req("string"), lastName |-> Req("string"),
             telephone |-> Opt("string"), addressLine1 |-> Req("string"),
             city |-> Req("string"), state |-> Req("string"),
             postalCode |-> Req("string"), countryCode |-> Req("len2"),
             description |-> Opt("string")]
      [] tool = "snowrail_process_a2a" ->
            CommonFields @@ XPayment @@
            [messageType |-> Req("string"), messagePayload |-> Req("string"),
             agentId |-> Opt("string"), agentName |-> Opt("string")]
      [] tool = "snowrail_facilitator_validate" ->
            CommonFields @@ [payment |-> Req("string")]
      [] tool = "snowrail_facilitator_verify" ->
            CommonFields @@
            [from |-> Req("string"), to |-> Req("string"), value |-> Req("string"),
             validAfter |-> Req("string"), validBefore |-> Req("string"),
             nonce |-> Req("string"), signature |-> Req("string")]
      [] tool = "snowrail_facilitator_settle" ->
            CommonFields @@ [paymentProof |-> Req("string"), meterId |-> Req("string")]
      [] tool = "snowrail_x402_callback" ->
            CommonFields @@
            [callbackSecret |-> Opt("string"), paymentIntentId |-> Req("string"),
             token |-> Req("string"), amount |-> Req("string"),
             txHash |-> Req("string"), timestamp |-> Opt("string")]
      [] tool = "snowrail_auth_signup" ->
            CommonFields @@
            [email |-> Req("email"), password |-> Req("min8"),
             companyLegalName |-> Req("string"), country |-> Def("len2", Str("US"))]
      [] tool = "snowrail_auth_login" ->
            CommonFields @@ [email |-> Req("email"), password |-> Req("min8")]
      [] tool \in {"snowrail_auth_me", "snowrail_dashboard"} ->
            CommonFields @@ [jwtToken |-> Req("string")]

\* the arguments pass the tool's schema
Validate(tool, args) ==
    \A f \in DOMAIN Schema(tool) :
        IF args[f].t = "undefined" THEN Schema(tool)[f].opt
        ELSE Conforms(Schema(tool)[f].kind, args[f])

\* what the handler receives: the arguments with defaults filled in
Parsed(tool, args) ==
    [f \in DOMAIN Schema(tool) |-> Coalesce(args[f], Schema(tool)[f].def)]

(***************************************************************************)
(* The tool registry                                                       *)
(***************************************************************************)
CoreTools ==
    {"snowrail_health", "snowrail_agent_identity", "snowrail_agent_stats",
     "snowrail_agent_activity", "snowrail_treasury_balance",
     "snowrail_payroll_execute", "snowrail_payroll_get_by_id",
     "snowrail_payment_process", "snowrail_treasury_test",
     "snowrail_facilitator_health", "snowrail_process_a2a"}

AdvancedTools ==
    {"snowrail_facilitator_validate", "snowrail_facilitator_verify",
     "snowrail_facilitator_settle"}

InternalTools ==
    {"snowrail_x402_callback", "snowrail_auth_signup", "snowrail_auth_login",
     "snowrail_auth_me", "snowrail_dashboard"}

AllTools == CoreTools \cup AdvancedTools \cup InternalTools

\* the server.tool(...) calls the module body executes
RegisteredAtStartup ==
    CoreTools
        \cup (IF isAdvanced THEN AdvancedTools ELSE {})
        \cup (IF isInternal THEN InternalTools ELSE {})

(***************************************************************************)
(* Handlers: the request each tool shapes                                  *)
(***************************************************************************)
Obj(r) == [t |-> "object", fields |-> r]

\* encodeURIComponent on the payroll ids the model uses
EncodeURIComponent(s) ==
    CASE s = "a/b" -> "a%2Fb"
      [] OTHER -> s

NoHeaders == <<>>

Get(path, a, headers) ==
    [path |-> path, method |-> "GET", headers |-> headers, body |-> Undefined,
     environment |-> a.environment, baseUrlOverride |-> a.baseUrl]

Post(path, a, headers, body) ==
    [path |-> path, method |-> "POST", headers |-> headers, body |-> body,
     environment |-> a.environment, baseUrlOverride |-> a.baseUrl]

XPaymentHeader(a) == "X-PAYMENT" :> a.xPayment

Bearer(a) == "Authorization" :> Str("Bearer " \o a.jwtToken.s)

\* Math.round(amount * 100)
MinorUnits(amount) == BigInt(MathRound(TimesHundred(AsDouble(amount))))

PaymentBody(a) ==
    Obj([recipient |-> a.recipientEmail,
         amount    |-> a.amount,
         currency  |-> a.currency,
         customer  |->
            Obj([first_name |-> a.firstName,
                 last_name |-> a.lastName,
                 email_address |-> a.recipientEmail,
                 telephone_number |-> a.telephone,
                 mailing_address |->
                    Obj([address_line1 |-> a.addressLine1,
                         city |-> a.city,
                         state |-> a.state,
                         postal_code |-> a.postalCode,
                         country_code |-> a.countryCode])]),
         payment   |->
            Obj([amount |-> MinorUnits(a.amount),
                 currency |-> a.currency,
                 recipient |-> a.recipientEmail,
                 description |-> Coalesce(a.description, Str("SnowRail MCP payment"))])])

\* a payload that does not parse is dropped instead of forwarded
A2APayload_NullOnError(messagePayload) ==
    LET r == JSONParse(messagePayload.cs)
    IN  IF r.ok THEN r.val ELSE Null

\* try { payload = JSON.parse(messagePayload) } catch { payload = messagePayload }
A2APayload(messagePayload) ==
    LET r == JSONParse(messagePayload.cs)
    IN  IF r.ok THEN r.val ELSE messagePayload

A2AMessage(a) ==
    [type |-> a.messageType, payload |-> A2APayload(a.messagePayload)]
        @@ (IF Truthy(a.agentId)
            THEN [agent |-> Obj([id |-> a.agentId]
                                 @@ (IF Truthy(a.agentName)
                                     THEN [name |-> a.agentName] ELSE <<>>))]
            ELSE <<>>)

CallbackBody(a) ==
    Obj([paymentIntentId |-> a.paymentIntentId, token |-> a.token,
         amount |-> a.amount, txHash |-> a.txHash]
        @@ (IF Truthy(a.timestamp) THEN [timestamp |-> a.timestamp] ELSE <<>>))

\* the snowrailFetch(path, options) call of each tool's handler
Handler(tool, a) ==
    CASE tool = "snowrail_health" -> Get("/health", a, NoHeaders)
      [] tool = "snowrail_agent_identity" -> Get("/api/agent/identity", a, NoHeaders)
      [] tool = "snowrail_agent_stats" -> Get("/api/agent/stats", a, NoHeaders)
      [] tool = "snowrail_agent_activity" -> Get("/api/agent/activity", a, NoHeaders)
      [] tool = "snowrail_treasury_balance" -> Get("/api/treasury/balance", a, NoHeaders)
      [] tool = "snowrail_payroll_execute" ->
            Post("/api/payroll/execute", a, XPaymentHeader(a), Obj(<<>>))
      [] tool = "snowrail_payroll_get_by_id" ->
            Get("/api/payroll/" \o EncodeURIComponent(a.payrollId.s), a, NoHeaders)
      [] tool = "snowrail_payment_process" ->
            Post("/api/payment/process", a, XPaymentHeader(a), PaymentBody(a))
      [] tool = "snowrail_treasury_test" ->
            Post("/api/treasury/test", a, XPaymentHeader(a), Obj(<<>>))
      [] tool = "snowrail_facilitator_health" -> Get("/facilitator/health", a, NoHeaders)
      [] tool = "snowrail_process_a2a" ->
            Post("/process", a, XPaymentHeader(a), Obj([message |-> Obj(A2AMessage(a))]))
      [] tool = "snowrail_facilitator_validate" ->
            Post("/facilitator/validate", a, NoHeaders, Obj([payment |-> a.payment]))
      [] tool = "snowrail_facilitator_verify" ->
            Post("/facilitator/verify", a, NoHeaders,
                 Obj([from |-> a.from, to |-> a.to, value |-> a.value,
                      validAfter |-> a.validAfter, validBefore |-> a.validBefore,
                      nonce |-> a.nonce, signature |-> a.signature]))
      [] tool = "snowrail_facilitator_settle" ->
            Post("/facilitator/settle", a, NoHeaders,
                 Obj([paymentProof |-> a.paymentProof, meterId |-> a.meterId]))
      [] tool = "snowrail_x402_callback" ->
            Post("/internal/x402/callback", a,
                 IF Truthy(a.callbackSecret)
                 THEN "X-Callback-Secret" :> a.callbackSecret ELSE NoHeaders,
                 CallbackBody(a))
      [] tool = "snowrail_auth_signup" ->
            Post("/auth/signup", a, NoHeaders,
                 Obj([email |-> a.email, password |-> a.password,
                      companyLegalName |-> a.companyLegalName, country |-> a.country]))
      [] tool = "snowrail_auth_login" ->
            Post("/auth/login", a, NoHeaders,
                 Obj([email |-> a.email, password |-> a.password]))
      [] tool = "snowrail_auth_me" -> Get("/auth/me", a, Bearer(a))
      [] tool = "snowrail_dashboard" -> Get("/api/dashboard", a, Bearer(a))

(***************************************************************************)
(* snowrailFetch                                                           *)
(***************************************************************************)
RECURSIVE JSONStringify(_)
\* the document JSON.stringify(v) writes: properties holding undefined are left out
JSONStringify(v) ==
    IF v.t = "object"
    THEN Obj([k \in {f \in DOMAIN v.fields : v.fields[f].t # "undefined"} |->
                JSONStringify(v.fields[k])])
    ELSE v

NoReq == [sent |-> FALSE]

\* how a base url splits: the path it already carries, and whether it ends
\* with the "?" or "#" that closes the path of whatever is appended
BaseParts(base) ==
    CASE base = "https://staging-api.snowrail.xyz/facilitator/settle?" ->
            [pathname |-> "/facilitator/settle", closed |-> TRUE]
      [] base = "https://staging-api.snowrail.xyz/api/dashboard#" ->
            [pathname |-> "/api/dashboard", closed |-> TRUE]
      [] OTHER -> [pathname |-> "", closed |-> FALSE]

\* the path of the request fetch makes for the url base \o path: the url's
\* path ends where its query or its fragment begins
Pathname(base, path) ==
    IF BaseParts(base).closed THEN BaseParts(base).pathname
    ELSE BaseParts(base).pathname \o path

\* snowrailFetch up to its fetch(url, init): the request, or the resolver's throw
BuildRequest(o) ==
    LET base == resolveBaseUrl(o.environment, o.baseUrlOverride)
    IN  IF base.threw THEN [threw |-> TRUE, req |-> NoReq]
        ELSE [threw |-> FALSE,
              req |-> [sent    |-> TRUE,
                       url     |-> TemplateString(base.val) \o o.path,
                       wellFormed |-> base.val.t = "string" /\ IsUrl(base.val.s),
                       path    |-> o.path,
                       pathname |-> Pathname(TemplateString(base.val), o.path),
                       method  |-> o.method,
                       headers |-> o.headers @@ ("Content-Type" :> Str("application/json")),
                       body    |-> IF o.body.t # "undefined" /\ o.method # "GET"
                                   THEN JSONStringify(o.body) ELSE Undefined]]

\* a body that does not parse yields null instead of the raw text
ParseBody_NullOnError(text) ==
    IF Truthy(Text(text))
    THEN LET r == JSONParse(text) IN IF r.ok THEN r.val ELSE Null
    ELSE Null

\* data = text ? JSON.parse(text) : null, the raw text when the parse throws
ParseBody(text) ==
    IF Truthy(Text(text))
    THEN LET r == JSONParse(text) IN IF r.ok THEN r.val ELSE Text(text)
    ELSE Null

\* toToolResult({ url, status, data })
toToolResult(payload) == [kind |-> "result", content |-> payload]

Failure(kind) == [kind |-> kind, content |-> Undefined]

NoResult == Failure("none")
NoResp == [kind |-> "none"]

(***************************************************************************)
(* Invocations                                                             *)
(***************************************************************************)
Slots == 1 .. MaxInFlight

Idle ==
    [pc |-> "idle", tool |-> "", args |-> <<>>, req |-> NoReq, calls |-> 0,
     resp |-> NoResp, result |-> NoResult]

\* an invocation that ended before any request was built
Rejected(tool, args, kind) ==
    [pc |-> "done", tool |-> tool, args |-> args, req |-> NoReq, calls |-> 0,
     resp |-> NoResp, result |-> Failure(kind)]

\* the server's dispatch of tools/call: lookup, schema validation, then the
\* handler up to its await fetch(...)
Dispatch(tool, args) ==
    IF tool \notin registered THEN Rejected(tool, args, "unknown_tool")
    ELSE IF ~Validate(tool, args) THEN Rejected(tool, args, "validation_error")
    ELSE LET b == BuildRequest(Handler(tool, Parsed(tool, args)))
         IN  IF b.threw THEN Rejected(tool, args, "config_error")
             ELSE [pc |-> "fetching", tool |-> tool, args |-> args, req |-> b.req,
                   calls |-> 1, resp |-> NoResp, result |-> NoResult]

\* an HTTP error status is raised as a failure (if (!res.ok) throw ...)
OnResponse_ThrowOnError(i, status, text) ==
    IF status >= 400
    THEN [i EXCEPT !.pc = "done",
                   !.resp = [kind |-> "http", status |-> status, text |-> text],
                   !.result = Failure("transport_error")]
    ELSE [i EXCEPT !.pc = "done",
                   !.resp = [kind |-> "http", status |-> status, text |-> text],
                   !.result = toToolResult([url |-> i.req.url, status |-> status,
                                            data |-> ParseBody(text)])]

\* the url reported is kept in one place shared by all invocations: it is the
\* url of the request sent last among those in flight
OnResponse_SharedUrl(i, status, text) ==
    LET inFlight == {t \in Slots : inv[t].pc = "fetching"}
        last     == CHOOSE t \in inFlight : \A u \in inFlight : u <= t
    IN  [i EXCEPT !.pc = "done",
                  !.resp = [kind |-> "http", status |-> status, text |-> text],
                  !.result = toToolResult([url |-> inv[last].req.url, status |-> status,
                                           data |-> ParseBody(text)])]

\* fetch resolved and res.text() was read: the rest of snowrailFetch and the handler
OnResponse(i, status, text) ==
    [i EXCEPT !.pc = "done",
              !.resp = [kind |-> "http", status |-> status, text |-> text],
              !.result = toToolResult([url |-> i.req.url, status |-> status,
                                       data |-> ParseBody(text)])]

\* a rejected fetch is sent again
OnReject_Retry(i) == [i EXCEPT !.calls = @ + 1]

\* fetch (or res.text()) rejected: the rejection propagates out of the handler
OnReject(i) ==
    [i EXCEPT !.pc = "done",
              !.resp = [kind |-> "rejected"],
              !.result = Failure("transport_error")]

(***************************************************************************)
(* Inputs the host and the backend may supply                              *)
(***************************************************************************)
ModeValues == {Undefined, Str("core"), Str("advanced"), Str("internal")}

EnvValues ==
    {Undefined, Str("development"), Str("staging"), Str("production"),
     Str("qa"), Str("constructor")}

ApiBaseValues == {Undefined, Str(""), Str("https://custom.example")}

Statuses == {200, 404, 500}

SampleTexts ==
    {<<>>, <<"a">>, <<"1">>, <<"\"", "a", "\"">>, <<"[", "1", "]">>, <<"[", "1">>}

\* names a host may call: every tool of the source and one that does not exist
CallableNames == AllTools \cup {"snowrail_shutdown"}

Candidates(f, fs) ==
    CASE f = "messagePayload" -> {Text(cs) : cs \in SampleTexts} \cup {Undefined, Num(7)}
      [] f = "payrollId" -> {Str("pay_1"), Str("a/b"), Undefined, Num(7)}
      [] fs.kind = "string" /\ f \notin {"messagePayload", "payrollId"} ->
            {Str("abc"), Undefined, Num(7)}
      [] fs.kind = "email" -> {Str("a@b.co"), Str("not-an-email"), Undefined, Num(7)}
      [] fs.kind = "url" ->
            {Undefined, Str("https://override.example"),
             Str("https://staging-api.snowrail.xyz/facilitator/settle?"),
             Str("https://staging-api.snowrail.xyz/api/dashboard#"),
             Str("not a url"), Str(""), Num(7)}
      [] fs.kind = "positive" ->
            {Num(19), Dec(ToBits(1999)), Num(0), Num(-5), Str("19"), Undefined}
      [] fs.kind = "len2" -> {Str("US"), Str("USA"), Str("U"), Undefined}
      [] fs.kind = "min8" -> {Str("password1"), Str("short"), Undefined}
      [] fs.kind = "env" ->
            {Undefined, Str("development"), Str("staging"), Str("production"),
             Str("qa"), Num(7)}

\* a well-formed call: required fields present and valid, optional ones absent
Canon(tool) ==
    [f \in DOMAIN Schema(tool) |->
        IF Schema(tool)[f].opt THEN Undefined
        ELSE CHOOSE v \in Candidates(f, Schema(tool)[f]) :
                /\ v.t # "undefined"
                /\ Conforms(Schema(tool)[f].kind, v)
                /\ v \notin {Text(<<>>), Text(<<"a">>), Str("a/b")}]

\* the argument records tried for a tool: the well-formed call with every
\* environment/baseUrl pair, with any one field replaced, and the
\* agent-to-agent call with both agent fields
ArgsFor(tool) ==
    IF tool \notin AllTools THEN {<<>>}
    ELSE LET c == Canon(tool)
             S == Schema(tool)
         IN  {[c EXCEPT !.environment = e, !.baseUrl = b] :
                    e \in Candidates("environment", S.environment),
                    b \in Candidates("baseUrl", S.baseUrl)}
             \cup UNION {{[c EXCEPT ![f] = v] : v \in Candidates(f, S[f])} :
                            f \in DOMAIN S}
             \cup (IF tool = "snowrail_process_a2a"
                   THEN {[c EXCEPT !.agentId = Str("agent-1"), !.agentName = Str("abc")]}
                   ELSE {})

(***************************************************************************)
(* Actions                                                                 *)
(***************************************************************************)
Init ==
    /\ env \in [SNOWRAIL_MCP_MODE : ModeValues, SNOWRAIL_ENV : EnvValues,
                SNOWRAIL_API_BASE : ApiBaseValues]
    /\ registered = RegisteredAtStartup
    /\ inv = [s \in Slots |-> Idle]

\* the host calls a tool in a free slot
Invoke(s, tool, args) ==
    /\ inv[s].pc = "idle"
    /\ inv' = [inv EXCEPT ![s] = Dispatch(tool, args)]
    /\ UNCHANGED <<env, registered>>

\* the backend answers the request of slot s
FetchResolves(s, status, text) ==
    /\ inv[s].pc = "fetching"
    /\ inv[s].req.wellFormed
    /\ inv' = [inv EXCEPT ![s] = OnResponse(inv[s], status, text)]
    /\ UNCHANGED <<env, registered>>

\* the request of slot s fails: bad URL, no connection, body cut short
FetchRejects(s) ==
    /\ inv[s].pc = "fetching"
    /\ inv' = [inv EXCEPT ![s] = OnReject(inv[s])]
    /\ UNCHANGED <<env, registered>>

\* the host has read the result of slot s: nothing of the invocation is retained
Collect(s) ==
    /\ inv[s].pc = "done"
    /\ inv' = [inv EXCEPT ![s] = Idle]
    /\ UNCHANGED <<env, registered>>

\* a host that calls one tool at a time
HostSlot == CHOOSE s \in Slots : \A t \in Slots : s <= t

HostInvokes ==
    \E tool \in CallableNames : \E args \in ArgsFor(tool) : Invoke(HostSlot, tool, args)

BackendResponds ==
    \E status \in Statuses, text \in SampleTexts : FetchResolves(HostSlot, status, text)

TransportFails == FetchRejects(HostSlot)

HostCollects == Collect(HostSlot)

Next == HostInvokes \/ BackendResponds \/ TransportFails \/ HostCollects

Spec == Init /\ [][Next]_vars

(***************************************************************************)
(* The same bridge with every text up to MaxTextLen as response body and   *)
(* as messagePayload, under the default environment configuration          *)
(***************************************************************************)
InitText ==
    /\ env \in [SNOWRAIL_MCP_MODE : ModeValues, SNOWRAIL_ENV : {Undefined},
                SNOWRAIL_API_BASE : {Undefined}]
    /\ registered = RegisteredAtStartup
    /\ inv = [s \in Slots |-> Idle]

TextInvokes ==
    \/ Invoke(HostSlot, "snowrail_health", Canon("snowrail_health"))
    \/ \E cs \in Texts(MaxTextLen) :
          Invoke(HostSlot, "snowrail_process_a2a",
                 [Canon("snowrail_process_a2a") EXCEPT !.messagePayload = Text(cs)])

\* every text answers a health check; the sample texts answer the other calls
TextResponds ==
    \E status \in Statuses :
        \E text \in (IF inv[HostSlot].tool = "snowrail_health"
                     THEN Texts(MaxTextLen) ELSE SampleTexts) :
            FetchResolves(HostSlot, status, text)

NextText == TextInvokes \/ TextResponds \/ TransportFails \/ HostCollects

SpecText == InitText /\ [][NextText]_vars

(***************************************************************************)
(* Payments of two-decimal amounts under the default configuration         *)
(***************************************************************************)
InitAmount ==
    /\ env \in [SNOWRAIL_MCP_MODE : {Undefined}, SNOWRAIL_ENV : {Undefined},
                SNOWRAIL_API_BASE : {Undefined}]
    /\ registered = RegisteredAtStartup
    /\ inv = [s \in Slots |-> Idle]

\* 35184372088832.00, in cents
LargeCents == ToBits(100) \o Zeros(45)

AmountValues ==
    {Dec(ToBits(k)) : k \in 1 .. MaxCents}
    \cup {Dec(Plus(LargeCents, ToBits(j))) : j \in 0 .. MaxLargeOffset}

AmountInvokes ==
    \E amount \in AmountValues :
        Invoke(HostSlot, "snowrail_payment_process",
               [Canon("snowrail_payment_process") EXCEPT !.amount = amount])

NextAmount == AmountInvokes \/ BackendResponds \/ TransportFails \/ HostCollects

SpecAmount == InitAmount /\ [][NextAmount]_vars

(***************************************************************************)
(* A host that dispatches calls concurrently: up to MaxInFlight            *)
(* invocations are in flight and their requests complete in any order      *)
(***************************************************************************)
InitConcurrent ==
    /\ env \in [SNOWRAIL_MCP_MODE : {Undefined},
                SNOWRAIL_ENV : {Undefined, Str("production")},
                SNOWRAIL_API_BASE : {Undefined}]
    /\ registered = RegisteredAtStartup
    /\ inv = [s \in Slots |-> Idle]

ConcurrentArgs(tool) ==
    {[Canon(tool) EXCEPT !.environment = e, !.baseUrl = b] :
        e \in {Undefined, Str("development")},
        b \in {Undefined, Str("https://override.example")}}
    \cup {[Canon(tool) EXCEPT !.baseUrl = Str("not a url")]}

ConcurrentInvokes ==
    \E s \in Slots : \E tool \in {"snowrail_health", "snowrail_treasury_test"} :
        \E args \in ConcurrentArgs(tool) : Invoke(s, tool, args)

ConcurrentResponds ==
    \E s \in Slots : \E status \in Statuses, text \in {<<>>, <<"1">>} :
        FetchResolves(s, status, text)

ConcurrentFails == \E s \in Slots : FetchRejects(s)

ConcurrentCollects == \E s \in Slots : Collect(s)

NextConcurrent ==
    ConcurrentInvokes \/ ConcurrentResponds \/ ConcurrentFails \/ ConcurrentCollects

SpecConcurrent == InitConcurrent /\ [][NextConcurrent]_vars

(***************************************************************************)
(* Properties                                                              *)
(***************************************************************************)
\* an invocation that got as far as its handler
Handled(i) ==
    i.pc \in {"fetching", "done"} /\ i.result.kind \notin {"unknown_tool", "validation_error"}

\* the environment a call without baseUrl is meant to use
EffectiveEnv(i) ==
    IF i.args.environment # Undefined THEN i.args.environment.s
    ELSE IF env.SNOWRAIL_ENV # Undefined THEN env.SNOWRAIL_ENV.s
    ELSE "staging"

\* what the envelope's data field is meant to hold for a body text
BodyAsData(text) ==
    IF text = <<>> THEN Null
    ELSE IF IsValidJSON(text) THEN JSONParse(text).val
    ELSE Text(text)

\* C1: the names registered at startup are exactly the tier union of the mode:
\* the 11 core tools for core or no mode, plus the 3 facilitator tools for
\* advanced, plus the 5 internal tools for internal; all names are distinct.
C1_RegisteredIsTierUnion ==
    LET core == {"snowrail_health", "snowrail_agent_identity", "snowrail_agent_stats",
                 "snowrail_agent_activity", "snowrail_treasury_balance",
                 "snowrail_payroll_execute", "snowrail_payroll_get_by_id",
                 "snowrail_payment_process", "snowrail_treasury_test",
                 "snowrail_facilitator_health", "snowrail_process_a2a"}
        advanced == {"snowrail_facilitator_validate", "snowrail_facilitator_verify",
                     "snowrail_facilitator_settle"}
        internal == {"snowrail_x402_callback", "snowrail_auth_signup",
                     "snowrail_auth_login", "snowrail_auth_me", "snowrail_dashboard"}
        mode == env.SNOWRAIL_MCP_MODE
    IN  /\ mode \in {Undefined, Str("core")} =>
              registered = core /\ Cardinality(registered) = 11
        /\ mode = Str("advanced") =>
              registered = core \cup advanced /\ Cardinality(registered) = 14
        /\ mode = Str("internal") =>
              registered = core \cup advanced \cup internal /\ Cardinality(registered) = 19

C1_Witness ==
    /\ env.SNOWRAIL_MCP_MODE = Str("internal")
    /\ inv[HostSlot].pc = "fetching"
    /\ inv[HostSlot].tool = "snowrail_facilitator_settle"
    /\ inv[HostSlot].tool \in registered

\* the violations of a declared schema that the call carries
DeclaredViolation(tool, a) ==
    \/ a.environment \notin
          {Undefined, Str("development"), Str("staging"), Str("production")}
    \/ a.baseUrl \notin {Undefined, Str("https://override.example"),
                         Str("https://staging-api.snowrail.xyz/facilitator/settle?"),
                         Str("https://staging-api.snowrail.xyz/api/dashboard#")}
    \/ /\ tool \in {"snowrail_payroll_execute", "snowrail_payment_process",
                     "snowrail_treasury_test", "snowrail_process_a2a"}
       /\ a.xPayment.t # "string"
    \/ /\ tool = "snowrail_payment_process"
       /\ \/ a.recipientEmail # Str("a@b.co")
          \/ a.amount.t # "number"
          \/ ("n" \in DOMAIN a.amount /\ a.amount.n <= 0)
          \/ a.countryCode.t # "string"
          \/ Len(a.countryCode.s) # 2
          \/ \E f \in {"firstName", "lastName", "addressLine1", "city", "state",
                       "postalCode"} : a[f].t # "string"
    \/ /\ tool \in {"snowrail_auth_signup", "snowrail_auth_login"}
       /\ \/ a.email # Str("a@b.co")
          \/ a.password.t # "string"
          \/ Len(a.password.s) < 8
    \/ tool = "snowrail_payroll_get_by_id" /\ a.payrollId.t # "string"
    \/ /\ tool = "snowrail_process_a2a"
       /\ \E f \in {"messageType", "messagePayload"} : a[f].t # "string"
    \/ /\ tool \in {"snowrail_auth_me", "snowrail_dashboard"}
       /\ a.jwtToken.t # "string"

\* C2: an invocation of a registered tool whose input violates the declared
\* schema ends in a validation error, with no request built and no network call.
C2_InvalidInputMakesNoCall ==
    \A s \in Slots :
        (/\ inv[s].pc # "idle"
         /\ inv[s].tool \in registered
         /\ DeclaredViolation(inv[s].tool, inv[s].args))
        => /\ inv[s].pc = "done"
           /\ inv[s].result.kind = "validation_error"
           /\ inv[s].calls = 0
           /\ ~inv[s].req.sent

C2_Witness ==
    /\ inv[HostSlot].tool = "snowrail_payroll_execute"
    /\ inv[HostSlot].pc = "done"
    /\ inv[HostSlot].args.xPayment = Undefined
    /\ inv[HostSlot].result.kind = "validation_error"
    /\ inv[HostSlot].calls = 0

\* C3: an invocation whose request was answered with any HTTP status ends as a
\* normal result carrying the request URL, that status and the body; an
\* invocation of a registered tool fails only on a validation error, a
\* configuration error or a failure of the network call.
C3_HttpStatusIsNeverAFailure ==
    \A s \in Slots :
        /\ inv[s].resp.kind = "http" =>
              /\ inv[s].pc = "done"
              /\ inv[s].result.kind = "result"
              /\ inv[s].result.content.url = inv[s].req.url
              /\ inv[s].result.content.status = inv[s].resp.status
              /\ inv[s].result.content.data = BodyAsData(inv[s].resp.text)
        /\ (inv[s].pc = "done" /\ inv[s].tool \in registered
                /\ inv[s].result.kind # "result") =>
              \/ inv[s].resp.kind = "rejected"
              \/ inv[s].result.kind \in {"validation_error", "config_error"}

C3_Witness ==
    /\ inv[HostSlot].resp.kind = "http"
    /\ inv[HostSlot].resp.status = 500
    /\ inv[HostSlot].resp.text = <<"[", "1", "]">>
    /\ inv[HostSlot].result.kind = "result"
    /\ inv[HostSlot].result.content.status = 500

\* C4: a call that supplies a (valid) baseUrl is sent to that baseUrl followed
\* by the tool's path, whatever the per-call environment and the process
\* configuration.
C4_PerCallBaseUrlWins ==
    \A s \in Slots :
        (Handled(inv[s]) /\ inv[s].args.baseUrl # Undefined)
        => /\ inv[s].req.sent
           /\ inv[s].req.url = inv[s].args.baseUrl.s \o inv[s].req.path

C4_Witness ==
    /\ inv[HostSlot].pc = "fetching"
    /\ inv[HostSlot].args.baseUrl = Str("https://override.example")
    /\ inv[HostSlot].args.environment = Str("production")
    /\ env.SNOWRAIL_API_BASE = Str("https://custom.example")
    /\ env.SNOWRAIL_ENV = Str("development")
    /\ inv[HostSlot].req.url = "https://override.example/api/treasury/balance"

\* C5: when SNOWRAIL_API_BASE is set, a call with neither environment nor
\* baseUrl is sent to that URL, whatever SNOWRAIL_ENV is.
C5_ApiBaseOverridesEnv ==
    \A s \in Slots :
        (/\ Handled(inv[s])
         /\ inv[s].args.environment = Undefined
         /\ inv[s].args.baseUrl = Undefined
         /\ env.SNOWRAIL_API_BASE = Str("https://custom.example")
         /\ env.SNOWRAIL_ENV \in {Undefined, Str("development"), Str("staging"),
                                  Str("production")})
        => /\ inv[s].req.sent
           /\ inv[s].req.url = "https://custom.example" \o inv[s].req.path

\* C6: without a per-call baseUrl, the request goes to the table entry of the
\* effective environment: the per-call environment, else SNOWRAIL_ENV, else
\* staging.
C6_EnvironmentTable ==
    \A s \in Slots :
        (/\ Handled(inv[s])
         /\ inv[s].args.baseUrl = Undefined
         /\ EffectiveEnv(inv[s]) \in {"development", "staging", "production"})
        => /\ inv[s].req.sent
           /\ inv[s].req.url =
                (CASE EffectiveEnv(inv[s]) = "development" -> "http://localhost:4000"
                   [] EffectiveEnv(inv[s]) = "staging" -> "https://staging-api.snowrail.xyz"
                   [] EffectiveEnv(inv[s]) = "production" -> "https://api.snowrail.xyz")
                \o inv[s].req.path

C6_Witness ==
    /\ inv[HostSlot].pc = "fetching"
    /\ inv[HostSlot].args.baseUrl = Undefined
    /\ inv[HostSlot].args.environment = Str("production")
    /\ env.SNOWRAIL_ENV = Str("development")
    /\ inv[HostSlot].req.url = "https://api.snowrail.xyz/health"

\* C7: an invocation makes at most one network call, none when it is refused
\* before its handler or its base URL cannot be resolved, and exactly one
\* otherwise, whatever the outcome of the call.
C7_AtMostOneCall ==
    \A s \in Slots :
        /\ inv[s].calls <= 1
        /\ inv[s].result.kind \in {"unknown_tool", "validation_error", "config_error"}
              => inv[s].calls = 0
        /\ (inv[s].pc \in {"fetching", "done"}
              /\ inv[s].result.kind \notin
                    {"unknown_tool", "validation_error", "config_error"})
              => inv[s].calls = 1

C7_Witness ==
    /\ inv[HostSlot].pc = "done"
    /\ inv[HostSlot].resp.kind = "rejected"
    /\ inv[HostSlot].result.kind = "transport_error"
    /\ inv[HostSlot].calls = 1

\* C8 as stated: the data of an answered invocation is the parsed value when
\* the body text is valid JSON and the exact raw text when it is not.
C8_RawTextWheneverNotJson ==
    \A s \in Slots :
        inv[s].resp.kind = "http" =>
            /\ inv[s].result.kind = "result"
            /\ inv[s].result.content.data =
                  IF IsValidJSON(inv[s].resp.text)
                  THEN JSONParse(inv[s].resp.text).val
                  ELSE Text(inv[s].resp.text)

\* C8 amended: the data of an answered invocation is the parsed value when the
\* body text is valid JSON, the exact raw text when it is not empty and not
\* valid JSON, and null when it is empty; the invocation does not fail.
C8_RawTextUnlessEmpty ==
    \A s \in Slots :
        inv[s].resp.kind = "http" =>
            /\ inv[s].result.kind = "result"
            /\ inv[s].result.content.data = BodyAsData(inv[s].resp.text)

C8_Witness ==
    /\ inv[HostSlot].resp.kind = "http"
    /\ inv[HostSlot].resp.text = <<"]", "1">>
    /\ inv[HostSlot].result.content.data = Text(<<"]", "1">>)

\* C9: without a per-call baseUrl and with an effective environment that has no
\* entry in the table, the request goes to the process-wide default base URL,
\* and when there is none the invocation fails with a configuration error and
\* makes no network call.
C9_FallbackOrConfigError ==
    \A s \in Slots :
        (/\ Handled(inv[s])
         /\ inv[s].args.baseUrl = Undefined
         /\ EffectiveEnv(inv[s]) \notin {"development", "staging", "production"})
        => IF env.SNOWRAIL_API_BASE \notin {Undefined, Str("")}
           THEN /\ inv[s].req.sent
                /\ inv[s].req.url = env.SNOWRAIL_API_BASE.s \o inv[s].req.path
           ELSE /\ inv[s].result.kind = "config_error"
                /\ inv[s].calls = 0

\* C10: snowrail_process_a2a accepts every string as messagePayload, makes
\* exactly one POST to /process, and sends as message.payload the parsed value
\* when the string is valid JSON and the string itself when it is not.
C10_A2APayloadForwarded ==
    \A s \in Slots :
        (/\ inv[s].pc # "idle"
         /\ inv[s].tool = "snowrail_process_a2a"
         /\ inv[s].tool \in registered
         /\ inv[s].args.messagePayload.t = "string"
         /\ \A f \in {"xPayment", "messageType"} : inv[s].args[f].t = "string"
         /\ \A f \in {"environment", "baseUrl", "agentId", "agentName"} :
                inv[s].args[f] = Undefined
         /\ env.SNOWRAIL_ENV = Undefined)
        => /\ inv[s].pc \in {"fetching", "done"}
           /\ inv[s].result.kind \in {"none", "result", "transport_error"}
           /\ inv[s].calls = 1
           /\ inv[s].req.method = "POST"
           /\ inv[s].req.url = "https://staging-api.snowrail.xyz/process"
           /\ inv[s].req.body.fields.message.fields.payload =
                 IF IsValidJSON(inv[s].args.messagePayload.cs)
                 THEN JSONParse(inv[s].args.messagePayload.cs).val
                 ELSE inv[s].args.messagePayload

C10_Witness ==
    /\ inv[HostSlot].pc = "fetching"
    /\ inv[HostSlot].tool = "snowrail_process_a2a"
    /\ inv[HostSlot].args.messagePayload = Text(<<"[", "a">>)
    /\ inv[HostSlot].req.body.fields.message.fields.payload = Text(<<"[", "a">>)

\* C11: for every positive amount written with at most two decimals,
\* snowrail_payment_process sends as payment.amount the number of minor units,
\* amount * 100 as an integer (19.99 -> 1999), and as the top-level amount the
\* caller's amount unchanged.
C11_MinorUnitsOfEveryAmount ==
    \A s \in Slots :
        (/\ inv[s].tool = "snowrail_payment_process"
         /\ inv[s].req.sent
         /\ "cents" \in DOMAIN inv[s].args.amount)
        => /\ inv[s].req.body.fields.payment.fields.amount =
                 BigInt(inv[s].args.amount.cents)
           /\ inv[s].req.body.fields.amount = inv[s].args.amount

\* C12: with several invocations in flight and their requests completing in
\* any order, what an invocation sends depends only on its own arguments and
\* the startup configuration, its result only on those and on the response to
\* its own request: the url, status and data it returns are those of its own
\* request, two invocations given the same inputs send and return the same,
\* and a request in flight is not changed by any step of another invocation.
C12_InvocationsAreIndependent ==
    /\ [](\A s \in Slots :
            /\ inv[s].resp.kind = "http" =>
                  /\ inv[s].result.kind = "result"
                  /\ inv[s].result.content.url = inv[s].req.url
                  /\ inv[s].result.content.status = inv[s].resp.status
                  /\ inv[s].result.content.data = BodyAsData(inv[s].resp.text)
            /\ \A t \in Slots :
                  (/\ inv[s].pc # "idle" /\ inv[t].pc # "idle"
                   /\ inv[s].tool = inv[t].tool
                   /\ inv[s].args = inv[t].args)
                  => /\ inv[s].req = inv[t].req
                     /\ inv[s].resp = inv[t].resp => inv[s].result = inv[t].result)
    /\ [][\A s \in Slots :
            /\ (inv[s].pc # "idle" /\ inv'[s].pc # "idle") =>
                  /\ inv'[s].args = inv[s].args
                  /\ inv'[s].req = inv[s].req
            /\ inv'[s] # inv[s] => \A t \in Slots \ {s} : inv'[t] = inv[t]
            /\ inv[s].pc = "done" => inv'[s] \in {inv[s], Idle}]_vars

\* two requests to different urls are in flight, the one sent from the higher
\* slot is answered first and its result carries its own url and status
C12_Witness ==
    \E s, t \in Slots :
        /\ s < t
        /\ inv[s].pc = "fetching"
        /\ inv[t].pc = "done"
        /\ inv[t].resp.kind = "http"
        /\ inv[s].req.url # inv[t].req.url
        /\ inv[t].resp.status = 404
        /\ inv[t].result.content.url = inv[t].req.url
        /\ inv[t].result.content.status = 404

\* C13: the mode chosen at startup gates the backend endpoints for the whole
\* process lifetime: whatever is invoked, in mode core (the default) no network
\* call is made to /facilitator/validate, /facilitator/verify,
\* /facilitator/settle, /internal/x402/callback, /auth/signup, /auth/login,
\* /auth/me or /api/dashboard, in mode advanced none to the last five, and the
\* registered tool set never changes.
C13_ModeGatesEndpoints ==
    /\ [](LET facilitator == {"/facilitator/validate", "/facilitator/verify",
                              "/facilitator/settle"}
              internal    == {"/internal/x402/callback", "/auth/signup",
                              "/auth/login", "/auth/me", "/api/dashboard"}
              mode        == env.SNOWRAIL_MCP_MODE
          IN  \A s \in Slots :
                (inv[s].req.sent /\ inv[s].req.wellFormed) =>
                    /\ mode \in {Undefined, Str("core")} =>
                          inv[s].req.pathname \notin facilitator \cup internal
                    /\ mode = Str("advanced") =>
                          inv[s].req.pathname \notin internal)
    /\ [][registered' = registered]_vars

=============================================================================
